---- MODULE Spec2Model ----
(***************************************************************************)
(* Model of the two-pass Python semantic extractor (cf_extractor):         *)
(*   Pass 1  extractor.py      DefinitionCollector                         *)
(*   Pass 2  jedi_resolver.py  ReferenceCollector                          *)
(*   driver  main.py           run_extract                                 *)
(*                                                                         *)
(* A source file is a sequence of lines; a line is [ind, kind, name, sig]: *)
(*   "class"      class <name>:            (body = deeper lines, or pass)  *)
(*   "def"        def <name>(self?):       (body = deeper lines, or pass)  *)
(*   "dec"        @<name>                  decorator, plain name           *)
(*   "decattr"    @m.<name>                decorator, attribute            *)
(*   "deccall"    @<name>()                decorator, call expression      *)
(*   "assign"     <name> = 1                                               *)
(*   "assigncall" <name> = make()                                          *)
(*   "selfassign" self.<name> = 1                                          *)
(*   "call"       <name>()                                                 *)
(*   "selfcall"   self.<name>()                                            *)
(*   "read"       <name>                                                   *)
(*   "return"     return <name>                                            *)
(*   "from_ext"   from ext import <name>   (ext: an installed package)     *)
(*   "from_b"     from b import <name>     (b: the project module b.py)    *)
(*   "doc"        """<name>"""             a string expression statement   *)
(*   "if"         if <name>:               <name> a constant (True, False) *)
(*   "yield"      yield <name>             <name> a constant (1)           *)
(*   "yieldfrom"  yield from <name>        <name> a constant (())          *)
(* sig is the argument list and return annotation of a def (NoSig on every *)
(* other line); an annotation is the sequence of the calls inside it.      *)
(* Line i of the sequence is source line i (1-based, as ast.lineno).       *)
(***************************************************************************)
EXTENDS Integers, Sequences, FiniteSets, TLC

VARIABLES
    files,              \* input: the project, in find_python_files order
    oracle,             \* input: jedi goto, per file: position -> candidate
    pc,                 \* "pass1" | "pass2" | "done" | "exit"
    idx,                \* loop index of the current pass (1-based)
    docs,               \* run_extract.docs
    all_definitions,    \* run_extract.all_definitions
    external_symbols,   \* run_extract.external_symbols (dict, insertion order)
    result,             \* the returned SemanticData (None until the return)
    stdout              \* the JSON document main prints (None until printed)

vars == <<files, oracle, pc, idx, docs, all_definitions, external_symbols, result,
          stdout>>

\* ------------------------------------------------------------------ bounds
MaxLines == 3
MaxSites == 2

\* ------------------------------------------------------------------ values
None == "<None>"
Falsy(s) == s = None \/ s = ""

ProjectRoot == "/proj"
IndentWidth == 4

CompoundKinds == {"class", "def"}
\* the statements that open an indented block
BlockKinds == CompoundKinds \cup {"if"}
DecKinds == {"dec", "decattr", "deccall"}
ImportKinds == {"from_ext", "from_b"}
CallKinds == {"call", "selfcall", "deccall"}

\* the element of a singleton: The({e(x) : x \in {v}}) is e with x bound to
\* the value of v (v is evaluated once, as a statement's result is)
The(S) == CHOOSE y \in S : TRUE

\* ------------------------------------------------------------------ strings
RECURSIVE ReplaceSlash(_)
ReplaceSlash(s) ==
    IF Len(s) = 0 THEN ""
    ELSE (IF SubSeq(s, 1, 1) = "/" THEN "." ELSE SubSeq(s, 1, 1))
         \o ReplaceSlash(SubSeq(s, 2, Len(s)))

\* Path(rel_path).with_suffix("").as_posix().replace("/", ".")
ModuleSymbolId(rel_path) == ReplaceSlash(SubSeq(rel_path, 1, Len(rel_path) - 3))

AbsPath(rel_path) == ProjectRoot \o "/" \o rel_path

\* Python's `a in b` on strings
IsSubstring(a, b) ==
    \E i \in 1..(Len(b) - Len(a) + 1) : SubSeq(b, i, i + Len(a) - 1) = a

\* ------------------------------------------------------------------ syntax tree
\* ast col_offset of the expression on line i that Pass 2 resolves: after
\* "@" for a decorator, after "return " for a return
ExprColumn(L, i) ==
    L[i].ind * IndentWidth
    + (CASE L[i].kind \in DecKinds -> Len("@")
         [] L[i].kind = "return" -> Len("return ")
         [] OTHER -> 0)

\* the callee of an "assigncall" line and the column of its call expression
Factory == "make"

CallColumn(L, i) == L[i].ind * IndentWidth + Len(L[i].name) + Len(" = ")

\* the line of the statement whose block holds line i (0 = the module)
Parent(L, i) ==
    LET above == {j \in 1..(i - 1) : L[j].ind < L[i].ind}
    IN  IF above = {} THEN 0 ELSE CHOOSE j \in above : \A k \in above : k <= j

RECURSIVE Ancestors(_, _)
Ancestors(L, i) ==
    IF Parent(L, i) = 0 THEN {} ELSE {Parent(L, i)} \cup Ancestors(L, Parent(L, i))

\* ast end_lineno of the statement that starts on line i
EndLine(L, i) ==
    CHOOSE j \in i..Len(L) :
        /\ \A k \in (i + 1)..j : L[k].ind > L[i].ind
        /\ (j = Len(L) \/ L[j + 1].ind <= L[i].ind)

\* the statements of the body of node p (p = 0: the module), in source order
RECURSIVE BodyFrom(_, _, _)
BodyFrom(L, p, i) ==
    IF i > Len(L) THEN <<>>
    ELSE (IF Parent(L, i) = p /\ L[i].kind \notin DecKinds
          THEN <<i>> ELSE <<>>) \o BodyFrom(L, p, i + 1)

Body(L, p) == BodyFrom(L, p, 1)

\* decorator_list of the def/class on line i, in source order
RECURSIVE DecoratorList(_, _)
DecoratorList(L, i) ==
    IF i > 1 /\ L[i - 1].kind \in DecKinds /\ L[i - 1].ind = L[i].ind
    THEN Append(DecoratorList(L, i - 1), i - 1)
    ELSE <<>>

\* a well-formed source: indentation opens only under class/def/if, a decorator
\* is followed by the decorated def/class (or another decorator)
WellFormed(L) ==
    /\ \A i \in 1..Len(L) :
        /\ L[i].ind <= (IF i = 1 THEN 0
                        ELSE IF L[i - 1].kind \in BlockKinds
                             THEN L[i - 1].ind + 1 ELSE L[i - 1].ind)
        /\ L[i].kind \in DecKinds =>
              /\ i < Len(L)
              /\ L[i + 1].ind = L[i].ind
              /\ L[i + 1].kind \in CompoundKinds \cup DecKinds
        /\ (i > 1 /\ L[i - 1].kind \in DecKinds) => L[i].ind = L[i - 1].ind

\* ast.arguments of `def f(self)` with no return annotation. posonlyargs,
\* args and kwonlyargs are lists of ast.arg; vararg, kwarg (an ast.arg) and
\* returns (an annotation) are optional: <<>> when absent, <<x>> when present.
\* An ast.arg is [arg, annotation, default]: its name, its annotation (optional
\* in the same way) and whether a default value is written after it (the
\* entry the parameter has in ast.arguments.defaults or kw_defaults).
NoSig ==
    [posonlyargs |-> <<>>, args |-> <<>>, vararg |-> <<>>, kwonlyargs |-> <<>>,
     kwarg |-> <<>>, returns |-> <<>>]

\* ------------------------------------------------------------------ Pass 1
\* the calls of an annotation are [func, arg]: the called name and the first
\* argument when it is a string constant (None otherwise)
IsDocCall(call) == call.func = "Doc" /\ call.arg # None

\* _extract_doc_from_annotation: the string of every Doc(...) call, in
\* ast.walk order
_extract_doc_from_annotation(annotation) ==
    [k \in 1..Len(SelectSeq(annotation, IsDocCall)) |->
        SelectSeq(annotation, IsDocCall)[k].arg]

\* docs.extend(...) over the annotated ones of a list of ast.arg
RECURSIVE ExtendDocs(_, _, _)
ExtendDocs(out, arglist, k) ==
    IF k > Len(arglist) THEN out
    ELSE ExtendDocs(
            IF arglist[k].annotation # <<>>
            THEN out \o _extract_doc_from_annotation(arglist[k].annotation[1])
            ELSE out,
            arglist, k + 1)

\* _has_doc_in_annotations
_has_doc_in_annotations(sig) ==
    \/ ExtendDocs(<<>>, sig.args \o sig.kwonlyargs \o sig.posonlyargs, 1) # <<>>
    \/ ExtendDocs(<<>>, sig.vararg, 1) # <<>>
    \/ ExtendDocs(<<>>, sig.kwarg, 1) # <<>>
    \/ (sig.returns # <<>> /\ _extract_doc_from_annotation(sig.returns[1]) # <<>>)

\* _is_trivial_body of the def on line i; a def without deeper lines is
\* `def f(): pass`
_is_trivial_body(L, i) ==
    \/ Body(L, i) = <<>>
    \/ (Len(Body(L, i)) = 1 /\ L[Body(L, i)[1]].kind = "return")

\* ast.get_docstring, as the list _get_docstring starts from
OwnDocstring(L, i) ==
    IF Body(L, i) # <<>> /\ L[Body(L, i)[1]].kind = "doc"
       /\ ~Falsy(L[Body(L, i)[1]].name)
    THEN <<L[Body(L, i)[1]].name>> ELSE <<>>

\* _get_docstring of the def or class on line i
_get_docstring(L, i) ==
    IF L[i].kind # "def" THEN OwnDocstring(L, i)
    ELSE LET sig == L[i].sig
             params == ExtendDocs(OwnDocstring(L, i),
                            sig.args \o sig.kwonlyargs \o sig.posonlyargs, 1)
             kwarg == ExtendDocs(ExtendDocs(params, sig.vararg, 1), sig.kwarg, 1)
         IN  IF sig.returns # <<>>
             THEN kwarg \o _extract_doc_from_annotation(sig.returns[1])
             ELSE kwarg

\* DefinitionCollector._class_stack[-1] while line i is visited (0: empty)
ClassStackTop(L, i) ==
    LET cs == {a \in Ancestors(L, i) : L[a].kind = "class"}
    IN  IF cs = {} THEN 0 ELSE CHOOSE c \in cs : \A k \in cs : k <= c

\* DefinitionCollector._func_stack is non-empty while line i is visited
FuncStackNonEmpty(L, i) == \E a \in Ancestors(L, i) : L[a].kind = "def"

RECURSIVE _current_scope_prefix(_, _, _)
_current_scope_prefix(mod, L, i) ==
    IF ClassStackTop(L, i) = 0 THEN mod
    ELSE _current_scope_prefix(mod, L, ClassStackTop(L, i))
         \o "." \o L[ClassStackTop(L, i)].name

StartsWith(s, pre) == Len(s) >= Len(pre) /\ SubSeq(s, 1, Len(pre)) = pre
EndsWith(s, suf) == Len(s) >= Len(suf) /\ SubSeq(s, Len(s) - Len(suf) + 1, Len(s)) = suf

_visibility_from_name(name) ==
    IF StartsWith(name, "__") /\ ~EndsWith(name, "__") THEN "Private"
    ELSE IF StartsWith(name, "_") THEN "Private"
    ELSE "Public"

_span_from_node(L, i) == [start_line |-> i - 1, end_line |-> EndLine(L, i)]

_class_span_excluding_methods(L, i) ==
    LET members == SelectSeq(Body(L, i), LAMBDA j : L[j].kind \in CompoundKinds)
    IN  IF members # <<>>
        THEN [start_line |-> i - 1, end_line |-> members[1] - 1]
        ELSE [start_line |-> i - 1, end_line |-> EndLine(L, i)]

\* schema.FunctionModifiers(...): a pydantic model keeps the keyword arguments
\* that are declared fields and ignores every other one; the class declares
\* is_async, is_generator, is_static, is_abstract, is_constructor, is_di_wired
\* and visibility (of which is_generator, is_constructor and visibility are
\* modelled)
FunctionModifiers(is_generator, is_constructor, use_signature_only_for_size, visibility) ==
    [is_generator |-> is_generator, is_constructor |-> is_constructor,
     visibility |-> visibility]

\* the three classes of the details union; __class__ is the class of the
\* object (what isinstance tests), it is not a field
FunctionDetails(parameters, modifiers) ==
    [__class__ |-> "FunctionDetails", parameters |-> parameters,
     modifiers |-> modifiers]

VariableDetails(mutability, scope, visibility) ==
    [__class__ |-> "VariableDetails", mutability |-> mutability,
     scope |-> scope, visibility |-> visibility]

TypeDetails(kind, fields) ==
    [__class__ |-> "TypeDetails", kind |-> kind, fields |-> fields]

SymbolDefinition(id, kind, name, path, L, i, span, enclosing, documentation, details) ==
    [symbol_id |-> id, kind |-> kind, name |-> name, display_name |-> name,
     file_path |-> path, line |-> i - 1, column |-> L[i].ind * IndentWidth,
     span |-> span, enclosing_symbol |-> enclosing, is_external |-> FALSE,
     documentation |-> documentation, details |-> details]

TypeField(name, id) ==
    [name |-> name, visibility |-> _visibility_from_name(name), symbol_id |-> id]

VariableDef(mod, path, L, i, scope) ==
    LET prefix == IF scope = "Field" THEN _current_scope_prefix(mod, L, i) ELSE mod
    IN  SymbolDefinition(prefix \o "." \o L[i].name, "Variable", L[i].name, path, L, i,
            _span_from_node(L, i),
            IF scope = "Field" THEN prefix ELSE None,
            <<>>,
            VariableDetails("Mutable", scope, _visibility_from_name(L[i].name)))

\* DefinitionCollector.visit_ClassDef (the record appended; the body is
\* visited by the walk below)
visit_ClassDef(mod, path, L, i, acc) ==
    [acc EXCEPT !.defs = Append(@,
        SymbolDefinition(_current_scope_prefix(mod, L, i) \o "." \o L[i].name,
            "Type", L[i].name, path, L, i,
            _class_span_excluding_methods(L, i),
            IF ClassStackTop(L, i) = 0 THEN None ELSE _current_scope_prefix(mod, L, i),
            _get_docstring(L, i),
            TypeDetails("Class", <<>>)))]

\* ast.unparse(annotation): the text of an annotation, None when absent
_annotation_to_typeref(annotation) ==
    IF annotation = <<>> THEN None
    ELSE "Annotated[T, " \o annotation[1][1].func \o "(...)]"

\* schema.Parameter(...); is_high_freedom_type is no declared field
Parameter(name, param_type, is_high_freedom_type, has_default, is_variadic) ==
    [name |-> name, param_type |-> param_type, has_default |-> has_default,
     is_variadic |-> is_variadic]

\* len(node.args.defaults): the defaults of posonlyargs and args
NumDefaults(sig) ==
    Cardinality({k \in 1..Len(sig.posonlyargs) : sig.posonlyargs[k].default})
    + Cardinality({k \in 1..Len(sig.args) : sig.args[k].default})

\* the loop of _visit_function_def over enumerate(node.args.args), from the
\* k-th entry on (i = k - 1)
RECURSIVE Parameters(_, _)
Parameters(sig, k) ==
    IF k > Len(sig.args) THEN <<>>
    ELSE (IF sig.args[k].arg \in {"self", "cls"} THEN <<>>
          ELSE <<Parameter(sig.args[k].arg,
                     _annotation_to_typeref(sig.args[k].annotation),
                     sig.args[k].annotation = <<>>,
                     k - 1 >= Len(sig.args) - NumDefaults(sig),
                     sig.vararg # <<>> /\ sig.args[k].arg = sig.vararg[1].arg)>>)
         \o Parameters(sig, k + 1)

\* any(isinstance(n, ast.Yield) for n in ast.walk(node)): ast.walk yields the
\* node and all its descendants; ast.YieldFrom is not a subclass of ast.Yield
is_generator(L, i) == \E j \in i..EndLine(L, i) : L[j].kind = "yield"

\* DefinitionCollector._visit_function_def
_visit_function_def(mod, path, L, i, acc) ==
    [acc EXCEPT !.defs = Append(@,
        SymbolDefinition(_current_scope_prefix(mod, L, i) \o "." \o L[i].name,
            "Function", L[i].name, path, L, i,
            _span_from_node(L, i),
            IF ClassStackTop(L, i) = 0 THEN None ELSE _current_scope_prefix(mod, L, i),
            _get_docstring(L, i),
            FunctionDetails(Parameters(L[i].sig, 1),
              FunctionModifiers(is_generator(L, i),
                L[i].name = "__init__",
                _has_doc_in_annotations(L[i].sig) /\ _is_trivial_body(L, i),
                _visibility_from_name(L[i].name)))))]

\* DefinitionCollector.visit_Assign; acc.fields[c] is the fields list of the
\* TypeDetails of the class on line c
visit_Assign(mod, path, L, i, acc) ==
    LET c == ClassStackTop(L, i)
        prefix == _current_scope_prefix(mod, L, i)
    IN  IF L[i].kind \in {"assign", "assigncall"}
        THEN IF FuncStackNonEmpty(L, i) THEN acc
             ELSE IF c # 0
             THEN [defs |-> Append(acc.defs, VariableDef(mod, path, L, i, "Field")),
                   fields |-> [acc.fields EXCEPT ![c] =
                        Append(@, TypeField(L[i].name, prefix \o "." \o L[i].name))]]
             ELSE [acc EXCEPT !.defs = Append(@, VariableDef(mod, path, L, i, "Global"))]
        ELSE \* self.<name> = ...
             IF FuncStackNonEmpty(L, i) /\ c # 0
                /\ ~ \E k \in 1..Len(acc.fields[c]) : acc.fields[c][k].name = L[i].name
             THEN [defs |-> Append(acc.defs, VariableDef(mod, path, L, i, "Field")),
                   fields |-> [acc.fields EXCEPT ![c] =
                        Append(@, TypeField(L[i].name, prefix \o "." \o L[i].name))]]
             ELSE acc

\* NodeVisitor dispatch; every node is one line and the walk is in pre-order,
\* which is line order
RECURSIVE DefinitionCollectorVisit(_, _, _, _, _)
DefinitionCollectorVisit(mod, path, L, i, acc) ==
    IF i > Len(L) THEN acc
    ELSE The({DefinitionCollectorVisit(mod, path, L, i + 1, visited) :
              visited \in {
                CASE L[i].kind = "class" -> visit_ClassDef(mod, path, L, i, acc)
                  [] L[i].kind = "def" -> _visit_function_def(mod, path, L, i, acc)
                  [] L[i].kind \in {"assign", "assigncall", "selfassign"} ->
                        visit_Assign(mod, path, L, i, acc)
                  [] OTHER -> acc}})

\* extract_definitions_from_file: the definitions of one parsed file; the
\* TypeDetails objects were mutated in place, so the list shows the final fields
extract_definitions_from_file(path, L) ==
    The({[k \in 1..Len(acc.defs) |->
            IF acc.defs[k].kind = "Type"
            THEN [acc.defs[k] EXCEPT
                     !.details.fields = acc.fields[acc.defs[k].line + 1]]
            ELSE acc.defs[k]] :
         acc \in {DefinitionCollectorVisit(ModuleSymbolId(path), path, L, 1,
                      [defs |-> <<>>, fields |-> [c \in 1..Len(L) |-> <<>>]])}})

\* ------------------------------------------------------------------ Pass 2
\* A candidate is the first jedi Name of a goto answer; NoCand is the empty
\* answer (also what _resolve_at returns when goto raises).
NoCand == [module_path |-> None, line |-> 0, column |-> 0, name |-> "",
           full_name |-> None, type |-> "none"]

\* the oracle's entry for a position at which script.goto raises
Raises == [NoCand EXCEPT !.type = "raises"]

\* ReferenceCollector._resolve_at; cx.orc maps <<line, column>> to a candidate,
\* or to Raises: the except clause returns the empty answer
_resolve_at(cx, line, col) ==
    IF <<line, col>> \in DOMAIN cx.orc /\ cx.orc[<<line, col>>] # Raises
    THEN cx.orc[<<line, col>>]
    ELSE NoCand

JediMatches(d, c) ==
    LET j_line_0 == IF c.line # 0 THEN c.line - 1 ELSE -1
        j_name == IF Falsy(c.name) THEN "" ELSE c.name
    IN  /\ d.name = j_name
        /\ (~Falsy(c.module_path) /\ ~Falsy(d.file_path))
              => (EndsWith(c.module_path, d.file_path)
                  \/ IsSubstring(d.file_path, c.module_path))
        /\ j_line_0 >= 0
        /\ \/ d.line = j_line_0
           \/ (d.span.start_line <= j_line_0 /\ j_line_0 <= d.span.end_line)

_definition_symbol_id_from_jedi(definitions, c) ==
    IF c = NoCand \/ definitions = <<>> THEN None
    ELSE LET hits == {k \in 1..Len(definitions) : JediMatches(definitions[k], c)}
         IN  IF hits = {} THEN None
             ELSE definitions[CHOOSE k \in hits : \A h \in hits : k <= h].symbol_id

_full_name_from_jedi(c) == IF c = NoCand THEN None ELSE c.full_name

Max(a, b) == IF a >= b THEN a ELSE b

ExternalKind(c) ==
    IF c.type = "class" THEN "Type"
    ELSE IF c.type = "function" THEN "Function"
    ELSE "Variable"

\* the details object built next to the kind; fields not passed take the
\* schema's defaults (the candidate has no signature: get_signatures() is
\* empty, so no parameter is listed)
ExternalDetails(c) ==
    IF c.type = "class" THEN TypeDetails("Class", <<>>)
    ELSE IF c.type = "function"
    THEN FunctionDetails(<<>>, FunctionModifiers(FALSE, FALSE, FALSE, "Public"))
    ELSE VariableDetails("Immutable", "Global", "Public")

\* ReferenceCollector._collect_external_symbol on the collector's list
_collect_external_symbol(ext, target_sym, c) ==
    IF \E k \in 1..Len(ext) : ext[k].symbol_id = target_sym THEN ext
    ELSE IF Falsy(c.name) THEN ext
    ELSE LET line == Max(0, (IF c.line = 0 THEN 1 ELSE c.line) - 1)
         IN  Append(ext,
               [symbol_id |-> target_sym,
                kind |-> ExternalKind(c),
                name |-> c.name,
                display_name |-> IF Falsy(c.full_name) THEN c.name ELSE c.full_name,
                file_path |-> IF Falsy(c.module_path) THEN "unknown" ELSE c.module_path,
                line |-> line, column |-> c.column,
                span |-> [start_line |-> line, end_line |-> line + 1],
                enclosing_symbol |-> None, is_external |-> TRUE,
                documentation |-> <<>>,
                details |-> ExternalDetails(c)])

\* the shared step of every visitor: bind the candidate to a project
\* definition, else to its full name, recording an external symbol
ResolveTarget(cx, st, c) ==
    The({LET target == IF Falsy(matched) /\ c # NoCand
                       THEN _full_name_from_jedi(c) ELSE matched
         IN  [target |-> IF Falsy(target) THEN None ELSE target,
              st |-> IF Falsy(matched) /\ c # NoCand /\ ~Falsy(target)
                     THEN [st EXCEPT !.external_symbols =
                               _collect_external_symbol(@, target, c)]
                     ELSE st] :
         matched \in {IF c # NoCand
                      THEN _definition_symbol_id_from_jedi(cx.defs, c) ELSE None}})

\* ReferenceCollector._enclosing_symbol for a node on (1-based) line
RECURSIVE EnclosingFrom(_, _, _, _)
EnclosingFrom(spans, k, line, module_symbol_id) ==
    IF k = 0 THEN module_symbol_id
    ELSE IF spans[k][1] <= line /\ line <= spans[k][2] THEN spans[k][3]
    ELSE EnclosingFrom(spans, k - 1, line, module_symbol_id)

_enclosing_symbol(cx, st, line) ==
    EnclosingFrom(st._func_spans, Len(st._func_spans), line, cx.mod)

SymbolReference(cx, target, line, col, enc, role, receiver, method_name, assigned_to) ==
    [target_symbol |-> target, file_path |-> cx.path, line |-> line - 1,
     column |-> col, enclosing_symbol |-> enc, role |-> role,
     receiver |-> receiver, method_name |-> method_name,
     assigned_to |-> assigned_to]

IsVar(cx, target) ==
    \E k \in 1..Len(cx.defs) :
        cx.defs[k].symbol_id = target /\ cx.defs[k].kind = "Variable"
IsExt(st, target) ==
    \E k \in 1..Len(st.external_symbols) :
        st.external_symbols[k].symbol_id = target /\ st.external_symbols[k].is_external

\* ReferenceCollector.visit_Name for one Name node (ctx Load: role "Read",
\* ctx Store: role "Write"); a Name has no children
visit_Name(cx, st, line, col, role) ==
    LET enc == _enclosing_symbol(cx, st, line)
    IN  IF Falsy(enc) THEN st
        ELSE The({IF ~Falsy(r.target)
                     /\ (IsVar(cx, r.target) \/ IsExt(r.st, r.target))
                  THEN [r.st EXCEPT !.references = Append(@,
                           SymbolReference(cx, r.target, line, col, enc, role,
                                           None, None, None))]
                  ELSE r.st :
                  r \in {ResolveTarget(cx, st, _resolve_at(cx, line, col))}})

\* ReferenceCollector.visit_Attribute for <name>.<attr> with a plain-name
\* receiver at the same position, then generic_visit: the receiver Name (Load)
visit_Attribute(cx, st, line, col, role) ==
    LET enc == _enclosing_symbol(cx, st, line)
        c == _resolve_at(cx, line, col)
        receiver_sym == IF c # NoCand
                        THEN _definition_symbol_id_from_jedi(cx.defs, c) ELSE None
        recorded == The({IF ~Falsy(r.target)
                            /\ (IsVar(cx, r.target) \/ IsExt(r.st, r.target))
                         THEN [r.st EXCEPT !.references = Append(@,
                                  SymbolReference(cx, r.target, line, col, enc, role,
                                                  receiver_sym, None, None))]
                         ELSE r.st :
                         r \in {ResolveTarget(cx, st, c)}})
    IN  IF Falsy(enc) THEN visit_Name(cx, st, line, col, "Read")
        ELSE The({visit_Name(cx, st1, line, col, "Read") : st1 \in {recorded}})

\* ReferenceCollector.visit_Call for a call whose func is a plain name
\* (form "name") or <name>.<attr> (form "attr"), then generic_visit: the func
\* node.  assign_name is the plain-name target of the Assign whose whole value
\* is this call (None when there is none).
visit_Call(cx, st, line, col, form, attr, assign_name) ==
    LET enc == _enclosing_symbol(cx, st, line)
        c == _resolve_at(cx, line, col)
        receiver_sym == IF form = "attr" /\ c # NoCand
                        THEN _definition_symbol_id_from_jedi(cx.defs, c) ELSE None
        hits == {k \in 1..Len(cx.defs) :
                    /\ cx.defs[k].kind = "Variable"
                    /\ cx.defs[k].line = line - 1
                    /\ cx.defs[k].name = assign_name}
        assigned_to == IF assign_name = None \/ hits = {} THEN None
                       ELSE cx.defs[CHOOSE k \in hits : \A h \in hits : k <= h].symbol_id
        recorded == The({[r.st EXCEPT !.references = Append(@,
                            SymbolReference(cx, r.target, line, col, enc, "Call",
                                receiver_sym, IF form = "attr" THEN attr ELSE None,
                                assigned_to))] :
                         r \in {ResolveTarget(cx, st, c)}})
        generic_visit(s) == IF form = "attr"
                            THEN visit_Attribute(cx, s, line, col, "Read")
                            ELSE visit_Name(cx, s, line, col, "Read")
    IN  IF Falsy(enc) THEN generic_visit(st)
        ELSE The({generic_visit(st1) : st1 \in {recorded}})

\* ReferenceCollector._visit_decorator for the decorator on line d
_visit_decorator(cx, st, d, decorated_symbol_id) ==
    The({[r.st EXCEPT !.references = Append(@,
             SymbolReference(cx, r.target, d, ExprColumn(cx.L, d),
                             decorated_symbol_id, "Decorate", None, None, None))] :
         r \in {IF cx.L[d].kind \in {"dec", "decattr"}
                THEN ResolveTarget(cx, st, _resolve_at(cx, d, ExprColumn(cx.L, d)))
                ELSE [target |-> None, st |-> st]}})

RECURSIVE VisitDecorators(_, _, _, _, _)
VisitDecorators(cx, st, decs, k, decorated_symbol_id) ==
    IF k > Len(decs) THEN st
    ELSE The({VisitDecorators(cx, st1, decs, k + 1, decorated_symbol_id) :
              st1 \in {_visit_decorator(cx, st, decs[k], decorated_symbol_id)}})

\* generic_visit reaching the expression of the decorator on line d
VisitDecoratorExpr(cx, st, d) ==
    CASE cx.L[d].kind = "dec" ->
            visit_Name(cx, st, d, ExprColumn(cx.L, d), "Read")
      [] cx.L[d].kind = "decattr" ->
            visit_Attribute(cx, st, d, ExprColumn(cx.L, d), "Read")
      [] OTHER ->
            visit_Call(cx, st, d, ExprColumn(cx.L, d), "name", None, None)

RECURSIVE VisitDecoratorExprs(_, _, _, _)
VisitDecoratorExprs(cx, st, decs, k) ==
    IF k > Len(decs) THEN st
    ELSE The({VisitDecoratorExprs(cx, st1, decs, k + 1) :
              st1 \in {VisitDecoratorExpr(cx, st, decs[k])}})

\* visit_FunctionDef without the search of all_definitions
FuncId_NoLookup(cx, enc, i) == enc \o "." \o cx.L[i].name

\* the symbol id visit_FunctionDef gives the def on line i under enclosing enc
FuncId(cx, enc, i) ==
    LET func_id == enc \o "." \o cx.L[i].name
        hits == {k \in 1..Len(cx.defs) :
                    \/ cx.defs[k].symbol_id = func_id
                    \/ /\ cx.defs[k].name = cx.L[i].name
                       /\ cx.defs[k].file_path = cx.path
                       /\ cx.defs[k].line = i - 1}
    IN  IF hits = {} THEN func_id
        ELSE cx.defs[CHOOSE k \in hits : \A h \in hits : k <= h].symbol_id

RECURSIVE VisitStmt(_, _, _)
RECURSIVE VisitBody(_, _, _, _)

\* ReferenceCollector.visit_FunctionDef (visit_AsyncFunctionDef delegates to
\* it); generic_visit walks the body, then the decorator_list
visit_FunctionDef(cx, st, i) ==
    The({The({The({The({
        [visited EXCEPT !._func_spans = SubSeq(@, 1, Len(@) - 1)] :
        visited \in {VisitDecoratorExprs(cx, walked, DecoratorList(cx.L, i), 1)}}) :
        walked \in {VisitBody(cx, decorated, Body(cx.L, i), 1)}}) :
        decorated \in {VisitDecorators(cx,
                          [st EXCEPT !._func_spans =
                              Append(@, <<i, EndLine(cx.L, i), func_id>>)],
                          DecoratorList(cx.L, i), 1, func_id)}}) :
        func_id \in {FuncId(cx, _enclosing_symbol(cx, st, i), i)}})

\* NodeVisitor.visit dispatch for the statement on line i
VisitStmt(cx, st, i) ==
    LET col == ExprColumn(cx.L, i)
        kind == cx.L[i].kind
    IN  CASE kind = "def" -> visit_FunctionDef(cx, st, i)
          [] kind = "class" ->
                \* no visit_ClassDef: generic_visit, body then decorator_list
                The({VisitDecoratorExprs(cx, walked, DecoratorList(cx.L, i), 1) :
                     walked \in {VisitBody(cx, st, Body(cx.L, i), 1)}})
          [] kind = "assign" -> visit_Name(cx, st, i, col, "Write")
          [] kind = "assigncall" ->
                \* generic_visit of the Assign: the target, then the value
                The({visit_Call(cx, st1, i, CallColumn(cx.L, i), "name", None,
                                cx.L[i].name) :
                     st1 \in {visit_Name(cx, st, i, col, "Write")}})
          [] kind = "selfassign" -> visit_Attribute(cx, st, i, col, "Write")
          [] kind = "call" -> visit_Call(cx, st, i, col, "name", None, None)
          [] kind = "selfcall" -> visit_Call(cx, st, i, col, "attr", cx.L[i].name, None)
          [] kind \in {"read", "return"} -> visit_Name(cx, st, i, col, "Read")
          [] kind = "if" -> VisitBody(cx, st, Body(cx.L, i), 1)
          [] OTHER -> st

VisitBody(cx, st, stmts, k) ==
    IF k > Len(stmts) THEN st
    ELSE The({VisitBody(cx, st1, stmts, k + 1) : st1 \in {VisitStmt(cx, st, stmts[k])}})

\* collect_references with a _resolve_at that lets the exception of goto
\* through: the caller's except clause drops the references of the file
collect_references_GotoPropagates(path, L, definitions, orc) ==
    IF \E site \in DOMAIN orc : orc[site] = Raises
    THEN [references |-> <<>>, external_symbols |-> <<>>, _func_spans |-> <<>>]
    ELSE The({VisitBody(cx, [references |-> <<>>, external_symbols |-> <<>>,
                             _func_spans |-> <<>>], Body(L, 0), 1) :
              cx \in {[path |-> path, mod |-> ModuleSymbolId(path), L |-> L,
                       defs |-> definitions, orc |-> orc]}})

\* collect_references: (references, external_symbols) of one parsed file
collect_references(path, L, definitions, orc) ==
    The({VisitBody(cx, [references |-> <<>>, external_symbols |-> <<>>,
                        _func_spans |-> <<>>], Body(L, 0), 1) :
         cx \in {[path |-> path, mod |-> ModuleSymbolId(path), L |-> L,
                  defs |-> definitions, orc |-> orc]}})

\* ------------------------------------------------------------------ run_extract
RelPaths == <<"b.py", "pkg/b.py", "pkg/c.py">>

\* dict[key] = value on an insertion-ordered dict keyed by symbol_id
DictSet(d, e) ==
    IF \E k \in 1..Len(d) : d[k].symbol_id = e.symbol_id
    THEN [k \in 1..Len(d) |-> IF d[k].symbol_id = e.symbol_id THEN e ELSE d[k]]
    ELSE Append(d, e)

RECURSIVE DictSetAll(_, _, _)
DictSetAll(d, es, k) ==
    IF k > Len(es) THEN d
    ELSE The({DictSetAll(d1, es, k + 1) : d1 \in {DictSet(d, es[k])}})

DocumentSemantics(path, definitions, references) ==
    [relative_path |-> path, definitions |-> definitions, references |-> references]

\* the input file behind docs[i]
FileOf(i) == CHOOSE f \in 1..Len(files) : files[f].path = docs[i].relative_path

\* end of one iteration of the Pass 1 loop
NextFile1 ==
    IF idx = Len(files) THEN pc' = "pass2" /\ idx' = 1
    ELSE pc' = "pass1" /\ idx' = idx + 1

\* Pass 1 loop, open() raises: the file is skipped
ReadFailure1 ==
    /\ pc = "pass1"
    /\ NextFile1
    /\ UNCHANGED <<files, oracle, docs, all_definitions, external_symbols, result,
                 stdout>>

\* Pass 1 loop, extract_definitions_from_file returns
ExtractDefinitions ==
    /\ pc = "pass1"
    /\ files[idx].parses
    /\ \E defs \in {extract_definitions_from_file(files[idx].path, files[idx].lines)} :
           /\ docs' = Append(docs, DocumentSemantics(files[idx].path, defs, <<>>))
           /\ all_definitions' = all_definitions \o defs
    /\ NextFile1
    /\ UNCHANGED <<files, oracle, external_symbols, result,
                 stdout>>

\* Pass 1 loop without the except clause: the exception ends the run
ExtractFailure_Propagates ==
    /\ pc = "pass1"
    /\ ~files[idx].parses
    /\ pc' = "exit"
    /\ UNCHANGED <<files, oracle, idx, docs, all_definitions, external_symbols, result,
                   stdout>>

\* Pass 1 loop, ast.parse raises: an empty document
ExtractFailure ==
    /\ pc = "pass1"
    /\ ~files[idx].parses
    /\ docs' = Append(docs, DocumentSemantics(files[idx].path, <<>>, <<>>))
    /\ NextFile1
    /\ UNCHANGED <<files, oracle, all_definitions, external_symbols, result,
                 stdout>>

\* Pass 2 loop, open() raises: continue
ReadFailure2 ==
    /\ pc = "pass2"
    /\ idx <= Len(docs)
    /\ idx' = idx + 1
    /\ UNCHANGED <<files, oracle, pc, docs, all_definitions, external_symbols, result,
                 stdout>>

\* Pass 2 loop with the file's own definitions as the table
CollectReferences_OwnDefinitions ==
    /\ pc = "pass2"
    /\ idx <= Len(docs)
    /\ files[FileOf(idx)].parses
    /\ \E out \in {collect_references(files[FileOf(idx)].path, files[FileOf(idx)].lines,
                                       docs[idx].definitions, oracle[FileOf(idx)])} :
           /\ external_symbols' = DictSetAll(external_symbols, out.external_symbols, 1)
           /\ docs' = [docs EXCEPT ![idx] =
                  DocumentSemantics(docs[idx].relative_path, docs[idx].definitions,
                                    out.references)]
    /\ idx' = idx + 1
    /\ UNCHANGED <<files, oracle, pc, all_definitions, result, stdout>>

\* Pass 2 loop, collect_references returns
CollectReferences ==
    /\ pc = "pass2"
    /\ idx <= Len(docs)
    /\ files[FileOf(idx)].parses
    /\ \E out \in {collect_references(files[FileOf(idx)].path, files[FileOf(idx)].lines,
                                       all_definitions, oracle[FileOf(idx)])} :
           /\ external_symbols' = DictSetAll(external_symbols, out.external_symbols, 1)
           /\ docs' = [docs EXCEPT ![idx] =
                  DocumentSemantics(docs[idx].relative_path, docs[idx].definitions,
                                    out.references)]
    /\ idx' = idx + 1
    /\ UNCHANGED <<files, oracle, pc, all_definitions, result,
                 stdout>>

\* a Pass 2 loop whose except clause resets the Document of the failing file
CollectFailure_ResetsDocument ==
    /\ pc = "pass2"
    /\ idx <= Len(docs)
    /\ docs' = [docs EXCEPT ![idx] =
                  DocumentSemantics(docs[idx].relative_path, <<>>, <<>>)]
    /\ idx' = idx + 1
    /\ UNCHANGED <<files, oracle, pc, all_definitions, external_symbols, result,
                 stdout>>

\* Pass 2 loop, collect_references raises (ast.parse, jedi.Script, a visitor):
\* only the warning is printed
CollectFailure ==
    /\ pc = "pass2"
    /\ idx <= Len(docs)
    /\ idx' = idx + 1
    /\ UNCHANGED <<files, oracle, pc, docs, all_definitions, external_symbols, result,
                 stdout>>

\* return SemanticData(...)
Return ==
    /\ pc = "pass2"
    /\ idx > Len(docs)
    /\ result' = [documents |-> docs, external_symbols |-> external_symbols]
    /\ pc' = "done"
    /\ UNCHANGED <<files, oracle, idx, docs, all_definitions, external_symbols, stdout>>

\* BaseModel.model_dump(mode="json") of a details object: its fields
ModelDump(det) == [f \in DOMAIN det \ {"__class__"} |-> det[f]]

\* pydantic's serialization of a model without _serialize_for_rust: details
\* as the fields of the object, no tag
_serialize_untagged(d) == [d EXCEPT !.details = ModelDump(d.details)]

\* SymbolDefinition._serialize_for_rust: details under the key chosen by the
\* class of the details object, every other field as it is
_serialize_for_rust(d) ==
    [d EXCEPT !.details =
        IF d.details.__class__ = "FunctionDetails"
        THEN "Function" :> ModelDump(d.details)
        ELSE IF d.details.__class__ = "VariableDetails"
        THEN "Variable" :> ModelDump(d.details)
        ELSE "Type" :> ModelDump(d.details)]

\* SemanticData.model_dump_json: the JSON document, as the object it denotes
model_dump_json(data) ==
    [documents |->
        [i \in 1..Len(data.documents) |->
            [relative_path |-> data.documents[i].relative_path,
             definitions |->
                [k \in 1..Len(data.documents[i].definitions) |->
                    _serialize_for_rust(data.documents[i].definitions[k])],
             references |-> data.documents[i].references]],
     external_symbols |->
        [k \in 1..Len(data.external_symbols) |->
            _serialize_for_rust(data.external_symbols[k])]]

\* the classes of the union  details: FunctionDetails | VariableDetails |
\* TypeDetails  and the object each builds when no field is given
DetailsClasses == {"FunctionDetails", "VariableDetails", "TypeDetails"}

DetailsDefault(cls) ==
    CASE cls = "FunctionDetails" ->
            FunctionDetails(<<>>, FunctionModifiers(FALSE, FALSE, FALSE, "Public"))
      [] cls = "VariableDetails" -> VariableDetails("Mutable", "Global", "Public")
      [] cls = "TypeDetails" -> TypeDetails("Class", <<>>)

\* validation of a JSON object as member cls of the union: a declared field
\* takes the value under its name if the object has that key, else its
\* default; keys that are no field are ignored (no class sets extra)
ValidateDetails(cls, obj) ==
    [f \in DOMAIN DetailsDefault(cls) |->
        IF f = "__class__" THEN cls
        ELSE IF f \in DOMAIN obj THEN obj[f]
        ELSE DetailsDefault(cls)[f]]

\* SymbolDefinition.model_validate of one printed definition, the union
\* resolved to member cls (every member validates every object, all of their
\* fields having defaults)
model_validate(j, cls) == [j EXCEPT !.details = ValidateDetails(cls, j.details)]

\* main: print(data.model_dump_json(indent=2))
main ==
    /\ pc = "done"
    /\ stdout' = model_dump_json(result)
    /\ pc' = "exit"
    /\ UNCHANGED <<files, oracle, idx, docs, all_definitions, external_symbols, result>>

Next ==
    \/ ReadFailure1
    \/ ExtractDefinitions
    \/ ExtractFailure
    \/ ReadFailure2
    \/ CollectReferences
    \/ CollectFailure
    \/ Return
    \/ main

\* ------------------------------------------------------------------ inputs
Line(ind, kind, name) == [ind |-> ind, kind |-> kind, name |-> name, sig |-> NoSig]

\* def <name>(<sig>) -> <sig.returns>:
FuncLine(ind, name, sig) == [ind |-> ind, kind |-> "def", name |-> name, sig |-> sig]

\* one more line after the prefix s
CanFollow(s, l) ==
    /\ l.ind <= (IF s = <<>> THEN 0
                 ELSE IF s[Len(s)].kind \in CompoundKinds
                      THEN s[Len(s)].ind + 1 ELSE s[Len(s)].ind)
    /\ (s # <<>> /\ s[Len(s)].kind \in DecKinds)
          => (l.ind = s[Len(s)].ind /\ l.kind \in CompoundKinds \cup DecKinds)

RECURSIVE Prefixes(_, _)
Prefixes(lines, n) ==
    IF n = 0 THEN {<<>>}
    ELSE UNION {{Append(s, l) : l \in {x \in lines : CanFollow(s, x)}} :
                    s \in Prefixes(lines, n - 1)}

\* the positions at which Pass 2 asks the oracle
SiteKinds ==
    {"assign", "assigncall", "selfassign", "call", "selfcall", "read", "return"}
    \cup DecKinds

Sites(L) ==
    {<<i, ExprColumn(L, i)>> : i \in {j \in 1..Len(L) : L[j].kind \in SiteKinds}}
    \cup {<<i, CallColumn(L, i)>> : i \in {j \in 1..Len(L) : L[j].kind = "assigncall"}}

\* the sources of at most n lines over the given lines, with at most
\* MaxSites oracle positions
Sources(lines, n) ==
    {s \in UNION {Prefixes(lines, k) : k \in 0..n} :
        WellFormed(s) /\ Cardinality(Sites(s)) <= MaxSites}

File(path, lines) == [path |-> path, parses |-> TRUE, lines |-> lines]
Unparsable(path) == [path |-> path, parses |-> FALSE, lines |-> <<>>]

DeclKinds == {"def", "class", "assign", "assigncall", "selfassign"}

\* the dotted path jedi reports for the name declared on line l
RECURSIVE QualifiedName(_, _, _)
QualifiedName(mod, L, l) ==
    (IF Parent(L, l) = 0 THEN mod ELSE QualifiedName(mod, L, Parent(L, l)))
    \o "." \o L[l].name

\* the declaration on line l of file f, as a goto answer
DeclCand(fs, f, l) ==
    [module_path |-> AbsPath(fs[f].path), line |-> l,
     column |-> fs[f].lines[l].ind * IndentWidth, name |-> fs[f].lines[l].name,
     full_name |-> QualifiedName(ModuleSymbolId(fs[f].path), fs[f].lines, l),
     type |-> CASE fs[f].lines[l].kind = "def" -> "function"
                [] fs[f].lines[l].kind = "class" -> "class"
                [] OTHER -> "statement"]

\* a declaration in an installed package
ExternalCand(name, type) ==
    [module_path |-> "/lib/ext.py", line |-> 1, column |-> 0, name |-> name,
     full_name |-> "ext." \o name, type |-> type]

ImportedModule(kind) == IF kind = "from_b" THEN "b" ELSE "ext"

\* the import on line l of file f, as a goto answer: goto stops at the
\* imported name, whose full name is the import path
ImportCand(fs, f, l, type) ==
    [module_path |-> AbsPath(fs[f].path), line |-> l,
     column |-> fs[f].lines[l].ind * IndentWidth
                + Len("from " \o ImportedModule(fs[f].lines[l].kind) \o " import "),
     name |-> fs[f].lines[l].name,
     full_name |-> ImportedModule(fs[f].lines[l].kind) \o "." \o fs[f].lines[l].name,
     type |-> type]

\* the (file, line) pairs of the project whose line is of one of kinds and
\* names name
LinesNaming(fs, files_, kinds, name) ==
    UNION {{<<f, l>> : l \in {j \in 1..Len(fs[f].lines) :
                /\ fs[f].lines[j].kind \in kinds
                /\ fs[f].lines[j].name = name}} : f \in files_}

\* what the oracle may answer for identifier name used in file k: nothing, a
\* declaration of that name in a project file, an import of that name in
\* file k, or an installed declaration of that name
CandsFor(fs, k, name, extTypes) ==
    {NoCand, Raises}
    \cup {DeclCand(fs, fl[1], fl[2]) : fl \in LinesNaming(fs, 1..Len(fs), DeclKinds, name)}
    \cup {ImportCand(fs, fl[1], fl[2], t) :
            fl \in LinesNaming(fs, {k}, ImportKinds, name), t \in extTypes}
    \cup {ExternalCand(name, t) : t \in extTypes}

\* the identifier queried at a site
SiteName(L, site) ==
    IF L[site[1]].kind = "assigncall" /\ site[2] = CallColumn(L, site[1])
    THEN Factory ELSE L[site[1]].name

RECURSIVE Oracles(_, _, _)
Oracles(fs, k, extTypes) ==
    IF k = 0 THEN {<<>>}
    ELSE LET sites == Sites(fs[k].lines)
             answers == UNION {CandsFor(fs, k, SiteName(fs[k].lines, s), extTypes) :
                                  s \in sites}
         IN  {Append(o, g) :
                o \in Oracles(fs, k - 1, extTypes),
                g \in {h \in [sites -> answers] :
                        \A s \in sites :
                            h[s] \in CandsFor(fs, k, SiteName(fs[k].lines, s), extTypes)}}

InitWith(projects, extTypes) ==
    /\ files \in projects
    /\ oracle \in Oracles(files, Len(files), extTypes)
    /\ pc = "pass1"
    /\ idx = 1
    /\ docs = <<>>
    /\ all_definitions = <<>>
    /\ external_symbols = <<>>
    /\ result = None
    /\ stdout = None

\* the oracle o with every out-of-project candidate replaced by one that has
\* the same full_name and an empty name
Anonymous(o) ==
    [f \in 1..Len(o) |->
        [s \in DOMAIN o[f] |->
            IF o[f][s].module_path = ExternalCand("", "function").module_path
            THEN [o[f][s] EXCEPT !.name = ""]
            ELSE o[f][s]]]

\* a project whose oracle answers candidates without a name
InitAnonymous(projects, extTypes) ==
    /\ files \in projects
    /\ oracle \in {Anonymous(o) : o \in Oracles(files, Len(files), extTypes)}
    /\ pc = "pass1"
    /\ idx = 1
    /\ docs = <<>>
    /\ all_definitions = <<>>
    /\ external_symbols = <<>>
    /\ result = None
    /\ stdout = None

\* the lines of template t whose index is in S, in order
RECURSIVE Keep(_, _, _)
Keep(t, S, i) ==
    IF i > Len(t) THEN <<>>
    ELSE (IF i \in S THEN <<t[i]>> ELSE <<>>) \o Keep(t, S, i + 1)

\* the sources obtained from template t by deleting lines
Variants(t) ==
    {s \in {Keep(t, S, 1) : S \in SUBSET (1..Len(t))} : WellFormed(s)}

\* ------------------------------------------------------------------ projects
\* one file: every source of at most MaxLines lines over these lines
MainLines ==
    {Line(n, k[1], k[2]) : n \in 0..2,
        k \in {<<"class", "T">>, <<"def", "f">>, <<"def", "g">>, <<"dec", "d">>,
               <<"assign", "g">>, <<"call", "e">>}}

MainProjects ==
    {<<File(RelPaths[1], s)>> : s \in Sources(MainLines, MaxLines)}
    \cup {<<Unparsable(RelPaths[1])>>}

\* tests/fixtures/test_nested_call.py
NestedCall ==
    <<Line(0, "class", "APIRouter"),
      Line(1, "def", "add_api_route"),
      Line(1, "def", "api_route"),
      Line(2, "def", "decorator"),
      Line(3, "selfcall", "add_api_route"),
      Line(3, "return", "fn"),
      Line(2, "return", "decorator")>>

\* tests/fixtures/test_self_call.py, after a module-level function put
SelfCall ==
    <<Line(0, "def", "put"),
      Line(0, "class", "APIRouter"),
      Line(1, "def", "api_route"),
      Line(1, "def", "put"),
      Line(2, "selfcall", "api_route")>>

\* a method with three decorators, after a module-level function g
Decorated ==
    <<Line(0, "def", "g"),
      Line(0, "class", "T"),
      Line(1, "dec", "d"),
      Line(1, "decattr", "m"),
      Line(1, "deccall", "e"),
      Line(1, "def", "g")>>

\* a method that sets the field x and then a local x
LocalAndField ==
    <<Line(0, "class", "T"),
      Line(1, "def", "m"),
      Line(2, "selfassign", "x"),
      Line(2, "assign", "x"),
      Line(2, "read", "x")>>

\* a function g with a local class whose method is also named g, and a call
\* of g
MethodInFunction ==
    <<Line(0, "def", "g"),
      Line(1, "class", "T"),
      Line(2, "def", "g"),
      Line(0, "call", "g")>>

\* a function that names a project class in load position (the fixture
\* behind test_except_handler_type_reference: `except QuotaError`)
ExceptType ==
    <<Line(0, "class", "QuotaError"),
      Line(0, "def", "create_image_edit"),
      Line(1, "read", "QuotaError")>>

\* a class whose first method is declared under a condition
ConditionalMethod ==
    <<Line(0, "class", "T"),
      Line(1, "if", "True"),
      Line(2, "def", "f"),
      Line(1, "def", "g")>>

\* a class with a constructor, a name-mangled method and underscore fields
Underscored ==
    <<Line(0, "class", "T"),
      Line(1, "def", "__init__"),
      Line(2, "selfassign", "_x"),
      Line(1, "def", "__p"),
      Line(1, "assign", "y")>>

\* a function that delegates to an iterable, and a nested generator
Generators ==
    <<Line(0, "def", "f"),
      Line(1, "yieldfrom", "()"),
      Line(1, "def", "g"),
      Line(2, "yield", "1")>>

FixtureProjects ==
    {<<File(RelPaths[1], s)>> :
        s \in Variants(NestedCall) \cup Variants(SelfCall)
              \cup Variants(Decorated) \cup Variants(LocalAndField)
              \cup Variants(ExceptType) \cup Variants(MethodInFunction)
              \cup Variants(ConditionalMethod) \cup Variants(Generators)
              \cup Variants(Underscored)}

\* an annotated parameter or return type: Annotated[T, <func>(<arg>)]
Annotated(func, arg) == <<[func |-> func, arg |-> arg]>>
Arg(name, annotation) == [arg |-> name, annotation |-> annotation, default |-> FALSE]
ArgWithDefault(name, annotation) ==
    [arg |-> name, annotation |-> annotation, default |-> TRUE]

\* the signatures of the documented-factory family: each kind of parameter
\* absent or documented by its own Doc string (the positional one also
\* without annotation, or annotated with another call), the return annotation
\* absent or documented
Signatures ==
    [posonlyargs : {<<>>, <<Arg("po", <<Annotated("Doc", "po")>>)>>},
     args : {<<>>, <<Arg("a", <<>>)>>, <<Arg("a", <<Annotated("Field", "fd")>>)>>,
             <<Arg("a", <<Annotated("Doc", "a")>>)>>},
     vararg : {<<>>, <<Arg("va", <<Annotated("Doc", "va")>>)>>},
     kwonlyargs : {<<>>, <<Arg("kw", <<Annotated("Doc", "kw")>>)>>},
     kwarg : {<<>>, <<Arg("kk", <<Annotated("Doc", "kk")>>)>>},
     returns : {<<>>, <<Annotated("Doc", "ret")>>}]

\* the bodies of the family (tests/fixtures/test_annotated_doc.py: pass)
Bodies ==
    {<<>>,
     <<Line(1, "return", "x")>>,
     <<Line(1, "doc", "docstring")>>,
     <<Line(1, "doc", "docstring"), Line(1, "return", "x")>>,
     <<Line(1, "assign", "x"), Line(1, "return", "x")>>}

\* signatures with every kind of parameter: def f(self, a: Annotated[..], b=1),
\* def f(p, /, a), def f(*args, **kwargs), def f(a, *, k=1)
ParameterSignatures ==
    {[NoSig EXCEPT !.args = <<Arg("self", <<>>), Arg("a", <<Annotated("Doc", "a")>>),
                              ArgWithDefault("b", <<>>)>>],
     [NoSig EXCEPT !.posonlyargs = <<Arg("p", <<>>)>>, !.args = <<Arg("a", <<>>)>>],
     [NoSig EXCEPT !.vararg = <<Arg("args", <<>>)>>,
                   !.kwarg = <<Arg("kwargs", <<>>)>>],
     [NoSig EXCEPT !.args = <<Arg("a", <<>>)>>,
                   !.kwonlyargs = <<ArgWithDefault("k", <<>>)>>]}

ParameterProjects ==
    {<<File(RelPaths[1], <<FuncLine(0, "f", sig)>>)>> : sig \in ParameterSignatures}

\* a call and a read of a name that no project file declares
Undeclared ==
    <<Line(0, "def", "f"),
      Line(1, "call", "e"),
      Line(0, "read", "e")>>

UndeclaredProjects == {<<File(RelPaths[1], s)>> : s \in Variants(Undeclared)}

SignatureProjects ==
    {<<File(RelPaths[1], <<FuncLine(0, "Body", sig)>> \o body)>> :
        sig \in Signatures, body \in Bodies}

\* two files that import and call the same names
ModuleB ==
    <<Line(0, "def", "g"),
      Line(0, "from_ext", "e"),
      Line(0, "call", "e")>>

ModuleC ==
    <<Line(0, "from_b", "g"),
      Line(0, "from_ext", "e"),
      Line(0, "call", "g"),
      Line(0, "call", "e")>>

ImportProjects ==
    {<<b, c>> :
        b \in {File(RelPaths[1], s) : s \in Variants(ModuleB)}
              \cup {Unparsable(RelPaths[1])},
        c \in {File(RelPaths[3], s) : s \in Variants(ModuleC)}
              \cup {Unparsable(RelPaths[3])}}

\* two project files with the same base name, b.py and pkg/b.py, that both
\* declare g on their first line; pkg/b.py calls g
TopLevelB == <<Line(0, "def", "g")>>

PackageB ==
    <<Line(0, "def", "g"),
      Line(0, "call", "g")>>

SameNameProjects ==
    {<<File(RelPaths[1], t), File(RelPaths[2], p)>> :
        t \in Variants(TopLevelB), p \in Variants(PackageB)}

\* a call assigned to a local x of f and to a module-level x, in pkg/c.py;
\* b.py declares a module-level x on its second line
GlobalX ==
    <<Line(0, "def", "h"),
      Line(0, "assign", "x")>>

AssignedCalls ==
    <<Line(0, "def", "f"),
      Line(1, "assigncall", "x"),
      Line(0, "assigncall", "x")>>

AssignedCallProjects ==
    {<<File(RelPaths[1], b), File(RelPaths[3], c)>> :
        b \in Variants(GlobalX), c \in Variants(AssignedCalls)}

\* ------------------------------------------------------------------ Spec
Init ==
    \/ InitWith(MainProjects, {"function"})
    \/ InitWith(FixtureProjects, {"function", "class", "statement"})
    \/ InitWith(ImportProjects, {"function"})
    \/ InitWith(SignatureProjects \cup ParameterProjects, {"function"})
    \/ InitWith(SameNameProjects, {"function"})
    \/ InitWith(AssignedCallProjects, {"function"})
    \/ InitAnonymous(UndeclaredProjects, {"function"})

Spec == Init /\ [][Next]_vars

\* ------------------------------------------------------------------ properties
\* the source behind docs[i]
SourceOf(i) == files[FileOf(i)].lines

\* Pass 2 has replaced docs[i] (a processed file with a site or a decorator
\* has at least one reference)
Processed(i) == docs[i].references # <<>>

\* the symbol_id Pass 1 recorded for the function declared on line l of docs[i]
FunctionIdAt(i, l) ==
    LET at == {k \in 1..Len(docs[i].definitions) :
                  /\ docs[i].definitions[k].kind = "Function"
                  /\ docs[i].definitions[k].line = l - 1}
    IN  IF at = {} THEN None
        ELSE docs[i].definitions[CHOOSE k \in at : TRUE].symbol_id

\* the positions <<i, k>> of the references of the run
AllRefs == UNION {{<<i, k>> : k \in 1..Len(docs[i].references)} : i \in 1..Len(docs)}
Ref(p) == docs[p[1]].references[p[2]]

\* the positions <<i, k>> of the definitions of the run
AllDefs == UNION {{<<i, k>> : k \in 1..Len(docs[i].definitions)} : i \in 1..Len(docs)}
Def(p) == docs[p[1]].definitions[p[2]]

\* C1: every reference has enclosing_symbol set, and it is the symbol_id of a
\* definition recorded by Pass 1 or the module-default id of the reference's
\* file.
C1_EnclosingSymbolRecorded ==
    \A p \in AllRefs :
        /\ ~Falsy(Ref(p).enclosing_symbol)
        /\ \/ Ref(p).enclosing_symbol = ModuleSymbolId(docs[p[1]].relative_path)
           \/ \E k \in 1..Len(all_definitions) :
                 all_definitions[k].symbol_id = Ref(p).enclosing_symbol

\* C1 witness: the run has returned a reference made inside a method, whose
\* enclosing_symbol is the method's recorded id (found by visit_FunctionDef's
\* search, not by joining names)
C1_Witness ==
    /\ pc = "done"
    /\ \E p \in AllRefs : \E q \in AllDefs :
          /\ Def(q).kind = "Function"
          /\ ~Falsy(Def(q).enclosing_symbol)
          /\ Ref(p).enclosing_symbol = Def(q).symbol_id
          /\ Ref(p).enclosing_symbol
                # ModuleSymbolId(docs[p[1]].relative_path) \o "." \o Def(q).name

\* C2: no two definitions of the run have the same symbol_id.
C2_SymbolIdsUnique ==
    \A p, q \in AllDefs : p # q => Def(p).symbol_id # Def(q).symbol_id

\* the lines of L that assign the plain name x inside a function body
LocalAssigns(L, x) ==
    {l \in 1..Len(L) : L[l].kind = "assign" /\ L[l].name = x /\ FuncStackNonEmpty(L, l)}

\* the lines of L where the plain name x occurs (stored or loaded)
Occurrences(L, x) ==
    {l \in 1..Len(L) : L[l].kind \in {"assign", "read", "return"} /\ L[l].name = x}

\* C3: a plain name assigned only inside function bodies of a file yields no
\* Variable definition for those assignments and no Read or Write reference
\* at an occurrence of the name.
C3_LocalVariablesInvisible ==
    \A i \in 1..Len(docs) :
        \A x \in {SourceOf(i)[l].name : l \in 1..Len(SourceOf(i))} :
            (/\ LocalAssigns(SourceOf(i), x) # {}
             /\ \A l \in 1..Len(SourceOf(i)) :
                   (SourceOf(i)[l].kind = "assign" /\ SourceOf(i)[l].name = x)
                      => l \in LocalAssigns(SourceOf(i), x))
            => /\ \A k \in 1..Len(docs[i].definitions) :
                     ~ /\ docs[i].definitions[k].kind = "Variable"
                       /\ docs[i].definitions[k].name = x
                       /\ docs[i].definitions[k].line + 1 \in LocalAssigns(SourceOf(i), x)
               /\ \A k \in 1..Len(docs[i].references) :
                     ~ /\ docs[i].references[k].role \in {"Read", "Write"}
                       /\ docs[i].references[k].line + 1 \in Occurrences(SourceOf(i), x)
                       /\ docs[i].references[k].column
                             = ExprColumn(SourceOf(i), docs[i].references[k].line + 1)

\* C4: Pass 1 records nothing declared inside a function body, except the
\* self.<name> fields assigned in methods.
C4_NothingFromFunctionBodies ==
    \A p \in AllDefs :
        FuncStackNonEmpty(SourceOf(p[1]), Def(p).line + 1)
            => SourceOf(p[1])[Def(p).line + 1].kind = "selfassign"

\* C5: when function F defines an inner function h and returns it, a call
\* made in h's body yields a Call reference whose enclosing_symbol is F's id.
C5_InnerCallAttributedToOuter ==
    \A i \in 1..Len(docs) :
        \A F, h, c \in 1..Len(SourceOf(i)) :
            (/\ SourceOf(i)[F].kind = "def"
             /\ SourceOf(i)[h].kind = "def"
             /\ Parent(SourceOf(i), h) = F
             /\ \E r \in 1..Len(SourceOf(i)) :
                   /\ SourceOf(i)[r].kind = "return"
                   /\ SourceOf(i)[r].name = SourceOf(i)[h].name
                   /\ Parent(SourceOf(i), r) = F
             /\ SourceOf(i)[c].kind \in {"call", "selfcall"}
             /\ Parent(SourceOf(i), c) = h)
            => \A k \in 1..Len(docs[i].references) :
                  (docs[i].references[k].role = "Call"
                   /\ docs[i].references[k].line = c - 1)
                     => docs[i].references[k].enclosing_symbol = FunctionIdAt(i, F)

\* C6: for a module-level type T with methods M and N, where M's body calls
\* self.N() and the oracle answers N's declaration at that site, exactly one
\* Call reference is emitted for the site, with target m.T.N and enclosing
\* m.T.M.
C6_SelfCallTargetAndEnclosing ==
    \A i \in 1..Len(docs) :
        Processed(i) =>
        \A T, M, N, c \in 1..Len(SourceOf(i)) :
            (/\ SourceOf(i)[T].kind = "class" /\ Parent(SourceOf(i), T) = 0
             /\ SourceOf(i)[M].kind = "def" /\ Parent(SourceOf(i), M) = T
             /\ SourceOf(i)[N].kind = "def" /\ Parent(SourceOf(i), N) = T
             /\ SourceOf(i)[c].kind = "selfcall"
             /\ SourceOf(i)[c].name = SourceOf(i)[N].name
             /\ Parent(SourceOf(i), c) = M
             /\ oracle[FileOf(i)][<<c, ExprColumn(SourceOf(i), c)>>]
                   = DeclCand(files, FileOf(i), N))
            => LET m == ModuleSymbolId(docs[i].relative_path)
                   type_id == m \o "." \o SourceOf(i)[T].name
                   at == {k \in 1..Len(docs[i].references) :
                             /\ docs[i].references[k].role = "Call"
                             /\ docs[i].references[k].line = c - 1}
               IN  /\ Cardinality(at) = 1
                   /\ \A k \in at :
                         /\ docs[i].references[k].target_symbol
                               = type_id \o "." \o SourceOf(i)[N].name
                         /\ docs[i].references[k].enclosing_symbol
                               = type_id \o "." \o SourceOf(i)[M].name

\* the set of the elements of sequence s
Range(s) == {s[k] : k \in 1..Len(s)}

\* C7: a function with k decorators yields exactly k Decorate references,
\* each with enclosing_symbol equal to the function's symbol_id.
C7_DecorateReferences ==
    \A i \in 1..Len(docs) :
        Processed(i) =>
        \A g \in 1..Len(SourceOf(i)) :
            (SourceOf(i)[g].kind = "def" /\ DecoratorList(SourceOf(i), g) # <<>>)
            => LET at == {k \in 1..Len(docs[i].references) :
                             /\ docs[i].references[k].role = "Decorate"
                             /\ docs[i].references[k].line + 1
                                   \in Range(DecoratorList(SourceOf(i), g))}
               IN  /\ Cardinality(at) = Len(DecoratorList(SourceOf(i), g))
                   /\ \A k \in at :
                         docs[i].references[k].enclosing_symbol = FunctionIdAt(i, g)

\* the candidate is declared in the installed package ext
OutOfProject(c) == c # NoCand /\ ~Falsy(c.full_name) /\ StartsWith(c.full_name, "ext.")

\* the sites <<f, line>> of the processed files whose line is of one of
\* kinds and whose oracle answer is the out-of-project target X
SitesAnswering(X, kinds) ==
    UNION {{<<FileOf(i), l>> : l \in {j \in 1..Len(SourceOf(i)) :
                /\ SourceOf(i)[j].kind \in kinds
                /\ OutOfProject(oracle[FileOf(i)][<<j, ExprColumn(SourceOf(i), j)>>])
                /\ oracle[FileOf(i)][<<j, ExprColumn(SourceOf(i), j)>>].full_name = X}} :
           i \in {d \in 1..Len(docs) : Processed(d)}}

\* the out-of-project targets the oracle answers
ExternalTargets ==
    UNION {{oracle[f][s].full_name : s \in {t \in DOMAIN oracle[f] :
                OutOfProject(oracle[f][t])}} : f \in 1..Len(files)}

\* C8: N >= 1 call sites (and no other site) resolving to the out-of-project
\* target X leave exactly one external_symbols entry with symbol_id X and
\* exactly N references with target_symbol X in the project record.
C8_OneEntryAndNReferences ==
    pc = "done" =>
        \A X \in ExternalTargets :
            (/\ SitesAnswering(X, CallKinds) # {}
             /\ SitesAnswering(X, SiteKinds \ CallKinds) = {})
            => /\ Cardinality({k \in 1..Len(result.external_symbols) :
                      result.external_symbols[k].symbol_id = X}) = 1
               /\ Cardinality({p \in AllRefs : Ref(p).target_symbol = X})
                     = Cardinality(SitesAnswering(X, CallKinds))

\* C9: an external symbol entry, once recorded, is never changed by a later
\* resolution of the same symbol_id.
C9_FirstResolutionWins ==
    [][\A k \in 1..Len(external_symbols) :
          \E j \in 1..Len(external_symbols') :
              external_symbols'[j] = external_symbols[k]]_vars

\* C10: in the project record no external_symbols entry has the symbol_id
\* of a definition of a document, and no reference has an external entry's
\* symbol_id as its enclosing_symbol.
C10_ExternalsOutsideProject ==
    pc = "done" =>
        \A k \in 1..Len(result.external_symbols) :
            /\ result.external_symbols[k].is_external
            /\ \A q \in AllDefs :
                  Def(q).symbol_id # result.external_symbols[k].symbol_id
            /\ \A p \in AllRefs :
                  Ref(p).enclosing_symbol # result.external_symbols[k].symbol_id


\* C11: every Read or Write reference targets a Variable-kind definition, of
\* the project table or of the external symbols.
C11_ReadWriteTargetsAreVariables ==
    \A p \in AllRefs :
        Ref(p).role \in {"Read", "Write"}
            => \/ \E k \in 1..Len(all_definitions) :
                     /\ all_definitions[k].symbol_id = Ref(p).target_symbol
                     /\ all_definitions[k].kind = "Variable"
               \/ \E k \in 1..Len(external_symbols) :
                     /\ external_symbols[k].symbol_id = Ref(p).target_symbol
                     /\ external_symbols[k].kind = "Variable"


\* the Type definition and the function of docs[i] that a load of line l
\* relates: line l is a statement of top-level function F whose expression
\* the oracle resolves to the declaration of top-level class T
TypeLoads(i) ==
    {<<F, T, l>> \in (1..Len(SourceOf(i))) \X (1..Len(SourceOf(i)))
                     \X (1..Len(SourceOf(i))) :
        /\ SourceOf(i)[F].kind = "def" /\ Parent(SourceOf(i), F) = 0
        /\ SourceOf(i)[T].kind = "class" /\ Parent(SourceOf(i), T) = 0
        /\ SourceOf(i)[l].kind \in {"read", "return"}
        /\ Parent(SourceOf(i), l) = F
        /\ oracle[FileOf(i)][<<l, ExprColumn(SourceOf(i), l)>>]
              = DeclCand(files, FileOf(i), T)}

\* C12: when Pass 2 returns for a file, a name loaded inside function F that
\* the oracle resolves to the project Type definition T has yielded a Read
\* reference with target T's symbol_id and enclosing F's symbol_id.
C12_TypeNameReadReference ==
    [][CollectReferences =>
        \A t \in TypeLoads(idx) :
            \E k \in 1..Len(docs'[idx].references) :
                /\ docs'[idx].references[k].role = "Read"
                /\ docs'[idx].references[k].target_symbol
                      = ModuleSymbolId(docs[idx].relative_path)
                        \o "." \o SourceOf(idx)[t[2]].name
                /\ docs'[idx].references[k].enclosing_symbol
                      = FunctionIdAt(idx, t[1])]_vars


\* the definitions of the printed document, project and external
PrintedDefinitions ==
    UNION {Range(stdout.documents[i].definitions) : i \in 1..Len(stdout.documents)}
    \cup Range(stdout.external_symbols)

\* the fields of the details of each kind
DetailsFields(kind) ==
    CASE kind = "Function" -> {"parameters", "modifiers"}
      [] kind = "Variable" -> {"mutability", "scope", "visibility"}
      [] kind = "Type" -> {"kind", "fields"}

\* C13: in the printed document the details of every definition, project or
\* external, is an object with exactly one key, which is one of Function,
\* Variable, Type and equals the definition's kind, and whose value holds the
\* fields of that kind.
C13_DetailsTaggedByKind ==
    pc = "exit" =>
        \A d \in PrintedDefinitions :
            /\ d.kind \in {"Function", "Variable", "Type"}
            /\ DOMAIN d.details = {d.kind}
            /\ DOMAIN d.details[d.kind] = DetailsFields(d.kind)

\* a printed document with project definitions of the three kinds and an
\* external symbol that is not a function
C13_Witness ==
    /\ pc = "exit"
    /\ \A kind \in {"Function", "Variable", "Type"} :
           \E i \in 1..Len(stdout.documents) :
               \E d \in Range(stdout.documents[i].definitions) : d.kind = kind
    /\ \E d \in Range(stdout.external_symbols) : d.kind = "Variable"


\* the positions of the definitions of the returned record: <<i, k>> in
\* document i, <<0, k>> among the external symbols
ResultDefs ==
    UNION {{<<i, k>> : k \in 1..Len(result.documents[i].definitions)} :
              i \in 1..Len(result.documents)}
    \cup {<<0, k>> : k \in 1..Len(result.external_symbols)}

ResultDef(p) ==
    IF p[1] = 0 THEN result.external_symbols[p[2]]
    ELSE result.documents[p[1]].definitions[p[2]]

PrintedDef(p) ==
    IF p[1] = 0 THEN stdout.external_symbols[p[2]]
    ELSE stdout.documents[p[1]].definitions[p[2]]

\* C14: validating the printed document against the schema gives back the
\* returned record: every definition is recovered, whichever member of the
\* union the validation settles on, and every reference is as it was.
C14_SerializeThenDeserialize ==
    pc = "exit" =>
        /\ \A p \in ResultDefs :
              \E cls \in DetailsClasses : model_validate(PrintedDef(p), cls) = ResultDef(p)
        /\ \A i \in 1..Len(result.documents) :
              stdout.documents[i].references = result.documents[i].references


\* the definition carries the prefer-signature-for-sizing modifier
CarriesSignatureOnly(d) ==
    /\ "use_signature_only_for_size" \in DOMAIN d.details.modifiers
    /\ d.details.modifiers["use_signature_only_for_size"] = TRUE

\* C15: the definition produced for a function carries
\* use_signature_only_for_size = true in its modifiers if and only if the
\* body of the function is exactly one pass or one return statement and a
\* parameter or return annotation contains a Doc(...) call.
C15_SignatureOnlyModifier ==
    \A i \in 1..Len(docs) :
        \A l \in 1..Len(SourceOf(i)) :
            SourceOf(i)[l].kind = "def" =>
                \E d \in Range(docs[i].definitions) :
                    /\ d.kind = "Function" /\ d.line = l - 1
                    /\ CarriesSignatureOnly(d)
                          <=> (/\ _is_trivial_body(SourceOf(i), l)
                               /\ _has_doc_in_annotations(SourceOf(i)[l].sig))

\* the lists of ast.arg of a signature in the order the parameters are
\* written: positional-only, positional, *args, keyword-only, **kwargs
DeclarationOrder(sig) ==
    sig.posonlyargs \o sig.args \o sig.vararg \o sig.kwonlyargs \o sig.kwarg

\* C16: the documentation of a function definition is its docstring if it has
\* one, then the Doc strings of its parameters in declaration order, then
\* the Doc strings of its return annotation.
C16_DocumentationOrder ==
    \A i \in 1..Len(docs) :
        \A l \in 1..Len(SourceOf(i)) :
            SourceOf(i)[l].kind = "def" =>
                \E d \in Range(docs[i].definitions) :
                    /\ d.kind = "Function" /\ d.line = l - 1
                    /\ d.documentation =
                          ExtendDocs(OwnDocstring(SourceOf(i), l),
                                     DeclarationOrder(SourceOf(i)[l].sig), 1)
                          \o (IF SourceOf(i)[l].sig.returns = <<>> THEN <<>>
                              ELSE _extract_doc_from_annotation(
                                       SourceOf(i)[l].sig.returns[1]))


\* the definitions of the files whose Pass 1 succeeded, in Pass 1 order
RECURSIVE DefinitionsOf(_, _)
DefinitionsOf(ds, i) ==
    IF i > Len(ds) THEN <<>> ELSE ds[i].definitions \o DefinitionsOf(ds, i + 1)

\* what Pass 2 computes for docs[i] when it resolves against table
Resolved(i, table) ==
    collect_references(files[FileOf(i)].path, files[FileOf(i)].lines, table,
                       oracle[FileOf(i)])

\* C17: Pass 2 starts only when the Pass 1 loop has been through the last
\* file; while Pass 1 runs no reference and no external symbol is produced;
\* once Pass 2 runs the definition table never changes, and the references
\* and external symbols Pass 2 records for a file are those resolved against
\* the table of the definitions of every file whose Pass 1 succeeded.
C17_PassTwoAfterPassOne ==
    [][/\ (pc = "pass1" /\ pc' # "pass1") => idx = Len(files)
       /\ pc = "pass1" =>
             /\ external_symbols' = external_symbols
             /\ \A i \in 1..Len(docs') : docs'[i].references = <<>>
       /\ pc # "pass1" => all_definitions' = all_definitions
       /\ (pc = "pass2" /\ idx' = idx + 1
              /\ (docs' # docs \/ external_symbols' # external_symbols)) =>
             /\ all_definitions = DefinitionsOf(docs, 1)
             /\ docs'[idx].references = Resolved(idx, DefinitionsOf(docs, 1)).references
             /\ external_symbols' =
                   DictSetAll(external_symbols,
                       Resolved(idx, DefinitionsOf(docs, 1)).external_symbols, 1)
      ]_vars

\* a finished run over two files in which a call of the second file is bound
\* to a definition of the first
C17_Witness ==
    /\ pc = "done"
    /\ Len(docs) = 2
    /\ \E r \in Range(docs[2].references) :
          \E d \in Range(docs[1].definitions) : r.target_symbol = d.symbol_id
    /\ \A e \in Range(external_symbols) :
          \A d \in Range(docs[1].definitions) : e.symbol_id # d.symbol_id


\* the input files that are parsed and have a Document: those whose Pass 1
\* did not fail
Survivors(ds) ==
    {f \in 1..Len(files) :
        files[f].parses /\ \E i \in 1..Len(ds) : ds[i].relative_path = files[f].path}

\* the definition table of a run over the files of S alone, in file order
RECURSIVE TableOf(_, _)
TableOf(S, f) ==
    IF f > Len(files) THEN <<>>
    ELSE (IF f \in S
          THEN extract_definitions_from_file(files[f].path, files[f].lines)
          ELSE <<>>) \o TableOf(S, f + 1)

\* C18: a file that cannot be parsed adds exactly one empty Document and
\* nothing to the definition table, a file that cannot be read adds no
\* Document; after either the loop goes on with the next file, the Document
\* of every other file is the one a run without the failing files produces,
\* and the run ends by returning the record of the Documents.
C18_FileFailuresAreNotFatal ==
    [][/\ pc = "pass1" =>
             /\ \A i \in 1..Len(docs) : docs[i].relative_path # files[idx].path
             /\ \/ pc' = "pass1" /\ idx' = idx + 1
                \/ pc' = "pass2" /\ idx = Len(files)
             /\ IF docs' = docs
                THEN all_definitions' = all_definitions
                ELSE IF files[idx].parses
                THEN \E defs \in {extract_definitions_from_file(
                                     files[idx].path, files[idx].lines)} :
                        /\ docs' = Append(docs,
                              DocumentSemantics(files[idx].path, defs, <<>>))
                        /\ all_definitions' = all_definitions \o defs
                ELSE /\ docs' = Append(docs,
                              DocumentSemantics(files[idx].path, <<>>, <<>>))
                     /\ all_definitions' = all_definitions
       /\ (pc = "pass2" /\ idx <= Len(docs)) =>
             /\ pc' = "pass2" /\ idx' = idx + 1
             /\ docs' # docs =>
                   docs' = [docs EXCEPT ![idx] =
                       DocumentSemantics(files[FileOf(idx)].path,
                           extract_definitions_from_file(
                               files[FileOf(idx)].path, files[FileOf(idx)].lines),
                           Resolved(idx, TableOf(Survivors(docs), 1)).references)]
       /\ (pc = "pass2" /\ idx > Len(docs)) =>
             /\ pc' = "done"
             /\ result' = [documents |-> docs, external_symbols |-> external_symbols]
      ]_vars

\* a finished run over two files, the first of which did not parse and has
\* its empty Document, the second of which has its references
C18_Witness ==
    /\ pc = "done"
    /\ Len(files) = 2 /\ ~files[1].parses
    /\ Len(result.documents) = 2
    /\ result.documents[1] = DocumentSemantics(files[1].path, <<>>, <<>>)
    /\ result.documents[2].references # <<>>


\* the call statements of docs[i] at which the oracle raises, and those at
\* which it answers a candidate
CallsWhereGoto(i, answers) ==
    {l \in 1..Len(SourceOf(i)) :
        /\ SourceOf(i)[l].kind \in {"call", "selfcall"}
        /\ oracle[FileOf(i)][<<l, ExprColumn(SourceOf(i), l)>>] \in answers}

\* C19: when Pass 2 returns for a file, every call site at which the oracle
\* raised has its Call reference, with target_symbol unset and with
\* method_name set exactly for an attribute-style call, and every call site
\* of the file at which the oracle answered has its Call reference too.
C19_OracleFailureIsNoCandidate ==
    [][CollectReferences =>
        /\ \A l \in CallsWhereGoto(idx, {Raises}) :
              \E r \in Range(docs'[idx].references) :
                  /\ r.role = "Call" /\ r.line = l - 1
                  /\ r.column = ExprColumn(SourceOf(idx), l)
                  /\ r.target_symbol = None
                  /\ r.method_name = IF SourceOf(idx)[l].kind = "selfcall"
                                     THEN SourceOf(idx)[l].name ELSE None
        /\ \A l \in 1..Len(SourceOf(idx)) :
              (/\ SourceOf(idx)[l].kind \in {"call", "selfcall"}
               /\ CallsWhereGoto(idx, {Raises}) # {}) =>
                  \E r \in Range(docs'[idx].references) :
                      r.role = "Call" /\ r.line = l - 1
      ]_vars

\* a processed file with a call at which the oracle raised, recorded with no
\* target, and a call after it that is bound to a symbol
C19_Witness ==
    \E i \in 1..Len(docs) :
        \E l \in CallsWhereGoto(i, {Raises}) :
            /\ \E r \in Range(docs[i].references) :
                  r.role = "Call" /\ r.line = l - 1 /\ r.target_symbol = None
            /\ \E r \in Range(docs[i].references) :
                  r.role = "Call" /\ r.line > l - 1 /\ r.target_symbol # None


\* the definitions of the table whose file and declaration line are the
\* candidate's
ExactMatches(c) ==
    {d \in Range(all_definitions) :
        /\ d.name = c.name
        /\ AbsPath(d.file_path) = c.module_path
        /\ d.line = c.line - 1}

\* C20: when Pass 2 returns for a file, the Call reference of a call whose
\* candidate has a definition with the same file and declaration line in the
\* table targets such a definition, whatever definitions stand before it in
\* the table.
C20_ExactMatchPreferred ==
    [][CollectReferences =>
        \A l \in 1..Len(SourceOf(idx)) :
            (/\ SourceOf(idx)[l].kind \in {"call", "selfcall"}
             /\ ExactMatches(oracle[FileOf(idx)][<<l, ExprColumn(SourceOf(idx), l)>>])
                   # {}) =>
                \E r \in Range(docs'[idx].references) :
                    /\ r.role = "Call" /\ r.line = l - 1
                    /\ \E d \in ExactMatches(
                              oracle[FileOf(idx)][<<l, ExprColumn(SourceOf(idx), l)>>]) :
                          r.target_symbol = d.symbol_id
      ]_vars


\* the symbol_ids of the definitions held by the candidate's defining file
IdsInFileOf(c) ==
    {d.symbol_id : d \in {e \in Range(all_definitions) :
                            AbsPath(e.file_path) = c.module_path}}

\* C21: when Pass 2 returns for a file, the Call reference of a call whose
\* oracle candidate is c has as target_symbol nothing, the candidate's own
\* full name, or the symbol_id of a definition held by the candidate's
\* defining file, and as receiver nothing or such a symbol_id.
C21_BoundWithinDefiningFile ==
    [][CollectReferences =>
        \A l \in 1..Len(SourceOf(idx)) :
            \A r \in Range(docs'[idx].references) :
                (/\ SourceOf(idx)[l].kind \in {"call", "selfcall"}
                 /\ r.role = "Call" /\ r.line = l - 1) =>
                    \E c \in {_resolve_at([orc |-> oracle[FileOf(idx)]], l,
                                          ExprColumn(SourceOf(idx), l))} :
                        /\ r.target_symbol \in
                              {None, c.full_name} \cup IdsInFileOf(c)
                        /\ r.receiver \in {None} \cup IdsInFileOf(c)
      ]_vars


\* C22: when Pass 2 returns for a file, a Call reference with assigned_to set
\* is the call of a line `<name> = <call>` of that file, the file has a
\* Variable definition of that name on that line, and assigned_to is the
\* symbol_id of that definition; a call assigned to a function-local name has
\* no assigned_to.
C22_AssignedToTrackedVariable ==
    [][CollectReferences =>
        \A r \in Range(docs'[idx].references) :
            (r.role = "Call" /\ r.assigned_to # None) =>
                \E l \in 1..Len(SourceOf(idx)) :
                    /\ SourceOf(idx)[l].kind = "assigncall"
                    /\ r.line = l - 1
                    /\ ~FuncStackNonEmpty(SourceOf(idx), l)
                    /\ \E d \in Range(docs[idx].definitions) :
                          /\ d.kind = "Variable"
                          /\ d.name = SourceOf(idx)[l].name
                          /\ d.line = l - 1
                          /\ r.assigned_to = d.symbol_id
      ]_vars


\* C23: for every type, the fields list has at most one entry per field name,
\* and the definitions of its file hold at most one Variable per field
\* symbol_id, however often the field is assigned in the class body or through
\* self./cls.
C23_FieldRecordedOnce ==
    \A p \in AllDefs :
        Def(p).kind = "Type" =>
            /\ \A j, k \in 1..Len(Def(p).details.fields) :
                   Def(p).details.fields[j].name = Def(p).details.fields[k].name
                       => j = k
            /\ \A j, k \in 1..Len(docs[p[1]].definitions) :
                   (/\ docs[p[1]].definitions[j].kind = "Variable"
                    /\ docs[p[1]].definitions[j].enclosing_symbol = Def(p).symbol_id
                    /\ docs[p[1]].definitions[k].kind = "Variable"
                    /\ docs[p[1]].definitions[k].symbol_id
                           = docs[p[1]].definitions[j].symbol_id)
                       => j = k


\* C24: for every Type T and every Function or Type M whose enclosing_symbol
\* is T's symbol_id, T's span ends at or before the line on which M's span
\* starts, wherever in the class body M is declared (T being the one
\* definition of its symbol_id).
C24_TypeSpanExcludesMembers ==
    \A p, q \in AllDefs :
        (/\ p[1] = q[1]
         /\ Def(p).kind = "Type"
         /\ \A r \in AllDefs : Def(r).symbol_id = Def(p).symbol_id => r = p
         /\ Def(q).kind \in {"Function", "Type"}
         /\ Def(q).enclosing_symbol = Def(p).symbol_id)
            => Def(p).span.end_line <= Def(q).span.start_line


\* the symbol_id Pass 1 recorded for the class declared on line l of docs[i]
TypeIdAt(i, l) ==
    LET at == {k \in 1..Len(docs[i].definitions) :
                  /\ docs[i].definitions[k].kind = "Type"
                  /\ docs[i].definitions[k].line = l - 1}
    IN  IF at = {} THEN None
        ELSE docs[i].definitions[CHOOSE k \in at : TRUE].symbol_id

\* C25: Pass 2 records, for a class with k decorators, k Decorate references
\* on the decorator lines, each with enclosing_symbol equal to the class's
\* symbol_id.
C25_ClassDecorateReferences ==
    [][CollectReferences =>
        \A g \in 1..Len(SourceOf(idx)) :
            (SourceOf(idx)[g].kind = "class" /\ DecoratorList(SourceOf(idx), g) # <<>>)
            => LET at == {k \in 1..Len(docs'[idx].references) :
                             /\ docs'[idx].references[k].role = "Decorate"
                             /\ docs'[idx].references[k].line + 1
                                   \in Range(DecoratorList(SourceOf(idx), g))}
               IN  /\ Cardinality(at) = Len(DecoratorList(SourceOf(idx), g))
                   /\ \A k \in at :
                         docs'[idx].references[k].enclosing_symbol = TypeIdAt(idx, g)
      ]_vars


\* C26: a function's is_generator modifier is true if and only if a yield or
\* a yield-from expression appears somewhere in the function's body.
C26_GeneratorModifier ==
    \A p \in AllDefs :
        Def(p).kind = "Function" =>
            (Def(p).details.modifiers.is_generator
             <=> \E j \in (Def(p).line + 2)..EndLine(SourceOf(p[1]), Def(p).line + 1) :
                    SourceOf(p[1])[j].kind \in {"yield", "yieldfrom"})


\* the parameters a signature declares, in the order they are written, with
\* what is written for each: default and star
Declared(sig) ==
    [k \in 1..Len(DeclarationOrder(sig)) |->
        [name |-> DeclarationOrder(sig)[k].arg,
         param_type |-> IF DeclarationOrder(sig)[k].annotation = <<>> THEN None
                        ELSE _annotation_to_typeref(DeclarationOrder(sig)[k].annotation),
         has_default |-> DeclarationOrder(sig)[k].default,
         is_variadic |-> \/ DeclarationOrder(sig)[k] \in Range(sig.vararg)
                         \/ DeclarationOrder(sig)[k] \in Range(sig.kwarg)]]

\* C27: the parameters list of a function definition holds one entry for each
\* declared parameter except self/cls, with the parameter's name, its type
\* text if any, has_default exactly when it has a default, and is_variadic
\* exactly when it is *args or **kwargs.
C27_ParametersListed ==
    \A p \in AllDefs :
        Def(p).kind = "Function" =>
            Def(p).details.parameters
                = SelectSeq(Declared(SourceOf(p[1])[Def(p).line + 1].sig),
                            LAMBDA d : d.name \notin {"self", "cls"})


\* the visibility the naming convention gives a name
ByConvention(name) ==
    IF StartsWith(name, "__") /\ ~EndsWith(name, "__") THEN "Private"
    ELSE IF StartsWith(name, "_") /\ ~StartsWith(name, "__") THEN "Private"
    ELSE "Public"

\* C28: visibility is a function of the name only: a name with two leading
\* underscores that is not a dunder is Private, a name with a single leading
\* underscore is Private, every other name (dunders such as __init__
\* included) is Public; for functions, variables and the fields of a type.
C28_VisibilityFromName ==
    \A p \in AllDefs :
        /\ Def(p).kind = "Function" =>
              Def(p).details.modifiers.visibility = ByConvention(Def(p).name)
        /\ Def(p).kind = "Variable" =>
              Def(p).details.visibility = ByConvention(Def(p).name)
        /\ Def(p).kind = "Type" =>
              \A f \in Range(Def(p).details.fields) :
                  f.visibility = ByConvention(f.name)


\* C29: in the returned record every reference whose target_symbol is set
\* points at the symbol_id of a definition of some document or of an external
\* symbol.
C29_TargetsAreRecorded ==
    pc \in {"done", "exit"} =>
        \A i \in 1..Len(result.documents) :
            \A r \in Range(result.documents[i].references) :
                r.target_symbol # None =>
                    \E p \in ResultDefs : ResultDef(p).symbol_id = r.target_symbol


\* C30: Pass 2 never adds, removes or alters definitions: every step of the
\* Pass 2 loop leaves the definition table and every Document's definitions
\* as Pass 1 produced them and touches no Document but the current one; a
\* step in which Pass 2 fails for the current file leaves its Document with
\* its definitions and no references, and leaves the Documents and external
\* symbols obtained from the other files as they are.
C30_PassTwoKeepsDefinitions ==
    [][pc = "pass2" =>
          /\ all_definitions' = all_definitions
          /\ Len(docs') = Len(docs)
          /\ \A i \in 1..Len(docs) :
                /\ docs[i].definitions =
                      (IF files[FileOf(i)].parses
                       THEN extract_definitions_from_file(
                                files[FileOf(i)].path, files[FileOf(i)].lines)
                       ELSE <<>>)
                /\ docs'[i].definitions = docs[i].definitions
                /\ i # idx => docs'[i] = docs[i]
          /\ (CollectFailure \/ ReadFailure2) =>
                /\ docs' = docs
                /\ docs[idx].references = <<>>
                /\ external_symbols' = external_symbols
      ]_vars

\* a finished run over two files: one has definitions and a call the oracle
\* answers, yet no reference (its Pass 2 failed); the other has its
\* references, and an external symbol was recorded
C30_Witness ==
    /\ pc = "done"
    /\ Len(docs) = 2
    /\ \E i \in 1..2 :
          /\ docs[i].definitions # <<>>
          /\ docs[i].references = <<>>
          /\ \E l \in 1..Len(SourceOf(i)) :
                /\ SourceOf(i)[l].kind = "call"
                /\ OutOfProject(oracle[FileOf(i)][<<l, ExprColumn(SourceOf(i), l)>>])
          /\ docs[3 - i].references # <<>>
    /\ external_symbols # <<>>
    /\ result.documents = docs

====
